---- MODULE Spec2Model ----
(***************************************************************************)
(* Model of the notification Manager of runst (src/notification.rs).       *)
(*                                                                         *)
(* The Manager is an Arc<RwLock<Vec<Notification>>>; every handle (clone)  *)
(* shares the same vector and the same lock.  Each public method takes the *)
(* lock for its whole body, so one action models one whole method call.    *)
(* A panic raised while the write guard is alive poisons the lock; from    *)
(* then on every `.expect("failed to retrieve notifications")` panics.     *)
(*                                                                         *)
(* Rust indexes vectors from 0, TLA+ sequences from 1: entry i of the      *)
(* code is notifications[i + 1] here, and Option<usize> is modelled with   *)
(* 0 for None and i + 1 for Some(i).                                       *)
(***************************************************************************)
EXTENDS Integers, Sequences, FiniteSets, TLC

\* ---------------------------------------------------------------- bounds
MaxLen == 3     \* longest vector explored (add is not taken beyond it)
MaxId == 3      \* ids are drawn from 1..MaxId (u32 in the code, never computed with)
NThreads == 3   \* threads, each with its own clone of the Manager

Ids == 1..MaxId
Threads == 1..NThreads

\* ------------------------------------------------------------ data model
\* struct Notification: id, is_read, and one opaque payload `body` standing
\* for app_name, summary, body, expire_timeout and urgency, none of which
\* the Manager reads or writes.  The Manager is independent of the payload,
\* so the k-th notification passed to add carries payload k: every entry
\* can then be told from every other, whatever its id.
Notification == [id : Ids, body : 1..MaxLen, is_read : BOOLEAN]

\* Value of the `notif` field of a call record when no Notification is returned.
NoNotification == [id |-> 0, body |-> 0, is_read |-> FALSE]

VARIABLES
    notifications,  \* the Vec<Notification> behind the RwLock
    poisoned,       \* the RwLock's poison flag
    call,           \* the last method call: name, argument, outcome, results, vector before it
    added,          \* number of add calls that returned
    addedUnread,    \* number of those whose argument had is_read = false
    marked,         \* a mark_* method has been called
    run,            \* the current uninterrupted series of mark_next_as_unread calls
                    \* that started on an all-unread, non-empty vector
    cycle,          \* the current uninterrupted series of mark_next_as_unread calls
                    \* that started on an all-read, non-empty vector
    threads,        \* per thread: where it is in the method it is calling
    lock,           \* the RwLock: the thread holding it for writing (0: none),
                    \* the threads holding it for reading
    committed       \* the vector as the last write guard left it

vars == <<notifications, poisoned, call, added, addedUnread, marked, run, cycle,
          threads, lock, committed>>

\* What Spec, which takes every method call as one step, leaves alone.
tvars == <<threads, lock, committed>>

\* What SpecThreads, which takes a method call in steps, leaves alone.
svars == <<call, addedUnread, marked, run, cycle>>

\* ------------------------------------------------------- pure operations
\* Result of a method body: the vector it leaves, whether it panicked, and
\* its return value (bool, count, notif: the ones the method does not
\* return keep their neutral value).
Outcome(ns, panicked, b, c, n) ==
    [notifications |-> ns, panicked |-> panicked, bool |-> b, count |-> c, notif |-> n]

\* Faulty variant of push: a notification whose id is already stored is dropped.
push_dedup(ns, notification) ==
    IF \E k \in 1..Len(ns) : ns[k].id = notification.id
    THEN ns
    ELSE Append(ns, notification)

\* Faulty variant of push: `insert(0, ..)`, the notification goes to the front.
push_front(ns, notification) == <<notification>> \o ns

\* Vec::push
push(ns, notification) == Append(ns, notification)

\* .iter_mut().position(|v| !v.is_read): first index from k on, 0 for None
RECURSIVE position(_, _)
position(ns, k) ==
    IF k > Len(ns) THEN 0
    ELSE IF ~ns[k].is_read THEN k
    ELSE position(ns, k + 1)

\* .iter().filter(|v| !v.is_read).collect(): the indices kept, in order
RECURSIVE filter_unread(_, _)
filter_unread(ns, k) ==
    IF k > Len(ns) THEN <<>>
    ELSE IF ~ns[k].is_read THEN <<k>> \o filter_unread(ns, k + 1)
    ELSE filter_unread(ns, k + 1)

\* .iter_mut().find(|notification| notification.id == id): first index, 0 for None
RECURSIVE find(_, _, _)
find(ns, id, k) ==
    IF k > Len(ns) THEN 0
    ELSE IF ns[k].id = id THEN k
    ELSE find(ns, id, k + 1)

\* Faulty variant of get_last_unread: takes the first unread entry, not the last.
get_last_unread_first(ns) ==
    LET unread == filter_unread(ns, 1) IN
    IF Len(unread) = 0
    THEN Outcome(ns, TRUE, FALSE, 0, NoNotification)
    ELSE Outcome(ns, FALSE, FALSE, 0, ns[unread[1]])

\* Faulty variant of get_last_unread: `.last().cloned().unwrap_or_default()`,
\* a default Notification is returned when nothing is unread.
get_last_unread_default(ns) ==
    LET unread == filter_unread(ns, 1) IN
    IF Len(unread) = 0
    THEN Outcome(ns, FALSE, FALSE, 0, NoNotification)
    ELSE Outcome(ns, FALSE, FALSE, 0, ns[unread[Len(unread)]])

\* Manager::get_last_unread.  With no unread entry `notifications.len() - 1`
\* is 0 - 1 on usize: an overflow panic in a debug build, usize::MAX and an
\* index-out-of-bounds panic in a release build; a panic either way.
get_last_unread(ns) ==
    LET unread == filter_unread(ns, 1) IN
    IF Len(unread) = 0
    THEN Outcome(ns, TRUE, FALSE, 0, NoNotification)
    ELSE Outcome(ns, FALSE, FALSE, 0, ns[unread[Len(unread)]])

\* Faulty variant of mark_last_as_read: `.next()` for `.last()`, the first
\* unread entry is marked.
mark_last_as_read_first(ns) ==
    LET unread == filter_unread(ns, 1) IN
    IF Len(unread) = 0
    THEN Outcome(ns, FALSE, FALSE, 0, NoNotification)
    ELSE Outcome([ns EXCEPT ![unread[1]].is_read = TRUE],
                 FALSE, FALSE, 0, NoNotification)

\* Faulty variant of mark_last_as_read: indexes the filtered vector with
\* `len() - 1` as get_last_unread does, so it panics when nothing is unread.
mark_last_as_read_index(ns) ==
    LET unread == filter_unread(ns, 1) IN
    IF Len(unread) = 0
    THEN Outcome(ns, TRUE, FALSE, 0, NoNotification)
    ELSE Outcome([ns EXCEPT ![unread[Len(unread)]].is_read = TRUE],
                 FALSE, FALSE, 0, NoNotification)

\* Manager::mark_last_as_read
mark_last_as_read(ns) ==
    LET unread == filter_unread(ns, 1) IN
    IF Len(unread) = 0
    THEN Outcome(ns, FALSE, FALSE, 0, NoNotification)
    ELSE Outcome([ns EXCEPT ![unread[Len(unread)]].is_read = TRUE],
                 FALSE, FALSE, 0, NoNotification)

\* Faulty variant of mark_next_as_unread: at index 0 it returns whether an
\* unread entry is left instead of false.
mark_next_as_unread_remaining(ns) ==
    LET last_unread_index == position(ns, 1) IN
    IF last_unread_index = 0
    THEN IF Len(ns) = 0
         THEN Outcome(ns, TRUE, FALSE, 0, NoNotification)
         ELSE Outcome([ns EXCEPT ![Len(ns)].is_read = FALSE],
                      FALSE, TRUE, 0, NoNotification)
    ELSE LET index == last_unread_index
             ns1 == [ns EXCEPT ![index].is_read = TRUE]
         IN  IF index > 1
             THEN Outcome([ns1 EXCEPT ![index - 1].is_read = FALSE],
                          FALSE, TRUE, 0, NoNotification)
             ELSE Outcome(ns1, FALSE, position(ns1, 1) # 0, 0, NoNotification)

\* Faulty variant of mark_next_as_unread: steps to index + 1 instead of index - 1.
mark_next_as_unread_forward(ns) ==
    LET last_unread_index == position(ns, 1) IN
    IF last_unread_index = 0
    THEN IF Len(ns) = 0
         THEN Outcome(ns, TRUE, FALSE, 0, NoNotification)
         ELSE Outcome([ns EXCEPT ![Len(ns)].is_read = FALSE],
                      FALSE, TRUE, 0, NoNotification)
    ELSE LET index == last_unread_index
             ns1 == [ns EXCEPT ![index].is_read = TRUE]
         IN  IF index < Len(ns)
             THEN Outcome([ns1 EXCEPT ![index + 1].is_read = FALSE],
                          FALSE, TRUE, 0, NoNotification)
             ELSE Outcome(ns1, FALSE, FALSE, 0, NoNotification)

\* Faulty variant of mark_next_as_unread: with every entry read it wraps to
\* the first entry instead of the last.
mark_next_as_unread_wrap_first(ns) ==
    LET last_unread_index == position(ns, 1) IN
    IF last_unread_index = 0
    THEN IF Len(ns) = 0
         THEN Outcome(ns, TRUE, FALSE, 0, NoNotification)
         ELSE Outcome([ns EXCEPT ![1].is_read = FALSE],
                      FALSE, TRUE, 0, NoNotification)
    ELSE LET index == last_unread_index
             ns1 == [ns EXCEPT ![index].is_read = TRUE]
         IN  IF index > 1
             THEN Outcome([ns1 EXCEPT ![index - 1].is_read = FALSE],
                          FALSE, TRUE, 0, NoNotification)
             ELSE Outcome(ns1, FALSE, FALSE, 0, NoNotification)

\* Faulty variant of mark_next_as_unread: the wrap is guarded by `len > 0`,
\* so the empty vector is left alone and true is returned.
mark_next_as_unread_guarded(ns) ==
    LET last_unread_index == position(ns, 1) IN
    IF last_unread_index = 0
    THEN IF Len(ns) = 0
         THEN Outcome(ns, FALSE, TRUE, 0, NoNotification)
         ELSE Outcome([ns EXCEPT ![Len(ns)].is_read = FALSE],
                      FALSE, TRUE, 0, NoNotification)
    ELSE LET index == last_unread_index
             ns1 == [ns EXCEPT ![index].is_read = TRUE]
         IN  IF index > 1
             THEN Outcome([ns1 EXCEPT ![index - 1].is_read = FALSE],
                          FALSE, TRUE, 0, NoNotification)
             ELSE Outcome(ns1, FALSE, FALSE, 0, NoNotification)

\* Faulty variant of mark_next_as_unread: true is returned at index 0 too.
mark_next_as_unread_true(ns) ==
    LET last_unread_index == position(ns, 1) IN
    IF last_unread_index = 0
    THEN IF Len(ns) = 0
         THEN Outcome(ns, TRUE, FALSE, 0, NoNotification)
         ELSE Outcome([ns EXCEPT ![Len(ns)].is_read = FALSE],
                      FALSE, TRUE, 0, NoNotification)
    ELSE LET index == last_unread_index
             ns1 == [ns EXCEPT ![index].is_read = TRUE]
         IN  IF index > 1
             THEN Outcome([ns1 EXCEPT ![index - 1].is_read = FALSE],
                          FALSE, TRUE, 0, NoNotification)
             ELSE Outcome(ns1, FALSE, TRUE, 0, NoNotification)

\* Faulty variant of mark_next_as_unread: entry `index` is not set read.
mark_next_as_unread_keep(ns) ==
    LET last_unread_index == position(ns, 1) IN
    IF last_unread_index = 0
    THEN IF Len(ns) = 0
         THEN Outcome(ns, TRUE, FALSE, 0, NoNotification)
         ELSE Outcome([ns EXCEPT ![Len(ns)].is_read = FALSE],
                      FALSE, TRUE, 0, NoNotification)
    ELSE LET index == last_unread_index IN
         IF index > 1
         THEN Outcome([ns EXCEPT ![index - 1].is_read = FALSE],
                      FALSE, TRUE, 0, NoNotification)
         ELSE Outcome(ns, FALSE, FALSE, 0, NoNotification)

\* Manager::mark_next_as_unread.  On the empty vector `len - 1` panics as in
\* get_last_unread, before anything was written.
mark_next_as_unread(ns) ==
    LET last_unread_index == position(ns, 1) IN
    IF last_unread_index = 0
    THEN IF Len(ns) = 0
         THEN Outcome(ns, TRUE, FALSE, 0, NoNotification)
         ELSE Outcome([ns EXCEPT ![Len(ns)].is_read = FALSE],
                      FALSE, TRUE, 0, NoNotification)
    ELSE LET index == last_unread_index
             ns1 == [ns EXCEPT ![index].is_read = TRUE]
         IN  IF index > 1
             THEN Outcome([ns1 EXCEPT ![index - 1].is_read = FALSE],
                          FALSE, TRUE, 0, NoNotification)
             ELSE Outcome(ns1, FALSE, FALSE, 0, NoNotification)

\* Faulty variant of mark_as_read: `filter` for `find`, every entry with the
\* id is marked.
mark_as_read_every(ns, id) ==
    Outcome([k \in 1..Len(ns) |->
                IF ns[k].id = id THEN [ns[k] EXCEPT !.is_read = TRUE] ELSE ns[k]],
            FALSE, FALSE, 0, NoNotification)

\* Manager::mark_as_read
mark_as_read(ns, id) ==
    LET k == find(ns, id, 1) IN
    IF k = 0
    THEN Outcome(ns, FALSE, FALSE, 0, NoNotification)
    ELSE Outcome([ns EXCEPT ![k].is_read = TRUE], FALSE, FALSE, 0, NoNotification)

\* Faulty variant of mark_all_as_read: the last entry is skipped.
mark_all_as_read_but_last(ns) ==
    Outcome([k \in 1..Len(ns) |->
                IF k < Len(ns) THEN [ns[k] EXCEPT !.is_read = TRUE] ELSE ns[k]],
            FALSE, FALSE, 0, NoNotification)

\* Manager::mark_all_as_read
mark_all_as_read(ns) ==
    Outcome([k \in 1..Len(ns) |-> [ns[k] EXCEPT !.is_read = TRUE]],
            FALSE, FALSE, 0, NoNotification)

\* Manager::get_unread_count
get_unread_count(ns) ==
    Outcome(ns, FALSE, FALSE, Len(filter_unread(ns, 1)), NoNotification)

\* Faulty variant of is_unread: `any` for `find`, true when any entry with the
\* id is unread.
is_unread_any(ns, id) ==
    Outcome(ns, FALSE, \E k \in 1..Len(ns) : ns[k].id = id /\ ~ns[k].is_read,
            0, NoNotification)

\* Manager::is_unread: .find(..).map(|v| !v.is_read).unwrap_or_default()
is_unread(ns, id) ==
    LET k == find(ns, id, 1) IN
    Outcome(ns, FALSE, IF k = 0 THEN FALSE ELSE ~ns[k].is_read, 0, NoNotification)

\* ------------------------------------------------------------ bookkeeping
AllUnread(ns) == \A k \in 1..Len(ns) : ~ns[k].is_read
AllRead(ns) == \A k \in 1..Len(ns) : ns[k].is_read
SomeUnread(ns) == \E k \in 1..Len(ns) : ~ns[k].is_read

NoRun == [active |-> FALSE, trues |-> 0, done |-> FALSE]

\* The series of mark_next_as_unread calls after a call `name` that left `ns`
\* and returned `b`: a series in progress is continued by a completed
\* mark_next_as_unread call (it ends on the first false); anything else
\* interrupts it, and a new series starts whenever the vector is non-empty
\* and all unread.
RunAfter(name, panicked, ns, b) ==
    IF name = "mark_next_as_unread" /\ ~panicked /\ run.active /\ ~run.done
    THEN [active |-> TRUE, trues |-> run.trues + (IF b THEN 1 ELSE 0), done |-> ~b]
    ELSE IF Len(ns) >= 1 /\ AllUnread(ns)
         THEN [active |-> TRUE, trues |-> 0, done |-> FALSE]
         ELSE NoRun

NoCycle == [active |-> FALSE, calls |-> 0, trues |-> 0]

\* The series of mark_next_as_unread calls counted from an all-read,
\* non-empty vector, after a call `name` that left `ns` and returned `b`: a
\* completed mark_next_as_unread call continues it (after Len(ns) + 1 calls
\* the count starts again at 1); anything else interrupts it, and a new
\* series starts whenever the vector is non-empty and all read.
CycleAfter(name, panicked, ns, b) ==
    IF name = "mark_next_as_unread" /\ ~panicked /\ cycle.active
    THEN IF cycle.calls >= Len(ns) + 1
         THEN [active |-> TRUE, calls |-> 1, trues |-> IF b THEN 1 ELSE 0]
         ELSE [active |-> TRUE, calls |-> cycle.calls + 1,
               trues |-> cycle.trues + (IF b THEN 1 ELSE 0)]
    ELSE IF Len(ns) >= 1 /\ AllRead(ns)
         THEN [active |-> TRUE, calls |-> 0, trues |-> 0]
         ELSE NoCycle

\* The last call was a get_last_unread that panicked for want of an unread
\* entry (not on a poisoned lock).
FailedRead ==
    call.name = "get_last_unread" /\ call.outcome = "panic" /\ ~call.was_poisoned

IsMark(name) ==
    name \in {"mark_last_as_read", "mark_next_as_unread", "mark_as_read", "mark_all_as_read"}

\* A call of a write-locking method whose body yields `out`: a panic under
\* the write guard poisons the lock.
Write(name, id, out) ==
    /\ ~poisoned
    /\ notifications' = out.notifications
    /\ poisoned' = out.panicked
    /\ call' = [name |-> name, id |-> id,
                outcome |-> IF out.panicked THEN "panic" ELSE "ok",
                bool |-> out.bool, count |-> out.count, notif |-> out.notif,
                pre |-> notifications, was_poisoned |-> FALSE,
                after_failed_read |-> FailedRead]
    /\ marked' = (marked \/ IsMark(name))
    /\ run' = RunAfter(name, out.panicked, out.notifications, out.bool)
    /\ cycle' = CycleAfter(name, out.panicked, out.notifications, out.bool)
    /\ UNCHANGED tvars

\* Faulty variant of Read: a panic under a read guard poisons the lock too.
Read_poisoning(name, id, out) ==
    /\ ~poisoned
    /\ notifications' = out.notifications
    /\ poisoned' = out.panicked
    /\ call' = [name |-> name, id |-> id,
                outcome |-> IF out.panicked THEN "panic" ELSE "ok",
                bool |-> out.bool, count |-> out.count, notif |-> out.notif,
                pre |-> notifications, was_poisoned |-> FALSE,
                after_failed_read |-> FailedRead]
    /\ run' = RunAfter(name, out.panicked, out.notifications, out.bool)
    /\ cycle' = CycleAfter(name, out.panicked, out.notifications, out.bool)
    /\ UNCHANGED <<added, addedUnread, marked>>
    /\ UNCHANGED tvars

\* A call of a read-locking method: a panic under a read guard does not
\* poison the lock.
Read(name, id, out) ==
    /\ ~poisoned
    /\ notifications' = out.notifications
    /\ poisoned' = FALSE
    /\ call' = [name |-> name, id |-> id,
                outcome |-> IF out.panicked THEN "panic" ELSE "ok",
                bool |-> out.bool, count |-> out.count, notif |-> out.notif,
                pre |-> notifications, was_poisoned |-> FALSE,
                after_failed_read |-> FailedRead]
    /\ run' = RunAfter(name, out.panicked, out.notifications, out.bool)
    /\ cycle' = CycleAfter(name, out.panicked, out.notifications, out.bool)
    /\ UNCHANGED <<added, addedUnread, marked>>
    /\ UNCHANGED tvars

\* A thread that is calling no method.
Idle == [pc |-> "idle", method |-> "none", index |-> 0, bool |-> FALSE, count |-> 0]

\* ---------------------------------------------------------------- actions
Init ==
    /\ notifications = <<>>
    /\ poisoned = FALSE
    /\ call = [name |-> "init", id |-> 0, outcome |-> "ok",
               bool |-> FALSE, count |-> 0, notif |-> NoNotification,
               pre |-> <<>>, was_poisoned |-> FALSE, after_failed_read |-> FALSE]
    /\ added = 0
    /\ addedUnread = 0
    /\ marked = FALSE
    /\ run = NoRun
    /\ cycle = NoCycle
    /\ threads = [t \in Threads |-> Idle]
    /\ lock = [writer |-> 0, readers |-> {}]
    /\ committed = <<>>

Add ==
    \E notification \in Notification :
        /\ notification.body = added + 1
        /\ Len(notifications) < MaxLen
        /\ Write("add", notification.id,
                 Outcome(push(notifications, notification), FALSE, FALSE, 0, NoNotification))
        /\ added' = added + 1
        /\ addedUnread' = addedUnread + (IF notification.is_read THEN 0 ELSE 1)

GetLastUnread ==
    Read("get_last_unread", 0, get_last_unread(notifications))

MarkLastAsRead ==
    /\ Write("mark_last_as_read", 0, mark_last_as_read(notifications))
    /\ UNCHANGED <<added, addedUnread>>

MarkNextAsUnread ==
    /\ Write("mark_next_as_unread", 0, mark_next_as_unread(notifications))
    /\ UNCHANGED <<added, addedUnread>>

MarkAsRead ==
    \E id \in Ids :
        /\ Write("mark_as_read", id, mark_as_read(notifications, id))
        /\ UNCHANGED <<added, addedUnread>>

MarkAllAsRead ==
    /\ Write("mark_all_as_read", 0, mark_all_as_read(notifications))
    /\ UNCHANGED <<added, addedUnread>>

GetUnreadCount ==
    Read("get_unread_count", 0, get_unread_count(notifications))

IsUnread ==
    \E id \in Ids :
        Read("is_unread", id, is_unread(notifications, id))

\* Any method called on a poisoned Manager: `.expect(...)` panics before the
\* body runs.
Methods ==
    {"add", "get_last_unread", "mark_last_as_read", "mark_next_as_unread",
     "mark_as_read", "mark_all_as_read", "get_unread_count", "is_unread"}

CallPoisoned ==
    \E name \in Methods :
        /\ poisoned
        /\ call' = [name |-> name, id |-> 0, outcome |-> "panic",
                    bool |-> FALSE, count |-> 0, notif |-> NoNotification,
                    pre |-> notifications, was_poisoned |-> TRUE,
                    after_failed_read |-> FailedRead]
        /\ marked' = (marked \/ IsMark(name))
        /\ run' = NoRun
        /\ cycle' = NoCycle
        /\ UNCHANGED <<notifications, poisoned, added, addedUnread>>
        /\ UNCHANGED tvars

Next ==
    \/ Add
    \/ GetLastUnread
    \/ MarkLastAsRead
    \/ MarkNextAsUnread
    \/ MarkAsRead
    \/ MarkAllAsRead
    \/ GetUnreadCount
    \/ IsUnread
    \/ CallPoisoned

Spec == Init /\ [][Next]_vars

TypeOK ==
    /\ notifications \in Seq(Notification)
    /\ Len(notifications) <= MaxLen
    /\ poisoned \in BOOLEAN
    /\ marked \in BOOLEAN
    /\ added \in 0..MaxLen
    /\ addedUnread \in 0..MaxLen

\* ------------------------------------------------------- threads and lock
\* SpecThreads takes the same methods in steps: a thread calls a method,
\* takes the lock, runs the body (one step per write to the vector for the
\* methods that write more than once), and drops the guard on return.
\* Every thread's clone shares the one lock and the one vector.  Ids are
\* unique here, the notification at position k has id k.

WriteMethods ==
    {"add", "mark_last_as_read", "mark_next_as_unread", "mark_as_read", "mark_all_as_read"}
ReadMethods == Methods \ WriteMethods

\* Faulty variant of write_available: readers are not waited for.
write_available_no_readers(l) == l.writer = 0

\* RwLock::write returns once no guard is alive.
write_available(l) == l.writer = 0 /\ l.readers = {}

\* Faulty variant of read_available: the write guard is not waited for.
read_available_always(l) == TRUE

\* RwLock::read returns once no write guard is alive.  (Whether it lets a
\* waiting writer go first is left open by std.)
read_available(l) == l.writer = 0

\* Faulty variant of release: the guard is leaked, the lock stays taken.
release_leak(l, t) == l

\* Drop of thread t's guard, on return and on unwinding alike.
release(l, t) ==
    [writer |-> IF l.writer = t THEN 0 ELSE l.writer, readers |-> l.readers \ {t}]

\* Thread t calls one of the methods that start with self.inner.write(), or
\* one of those that start with self.inner.read(), and blocks there.  Which
\* of them it is has no effect before the guard is taken, so the method is
\* drawn when it is taken.
Call(t, rw) ==
    /\ threads[t].pc = "idle"
    /\ threads' = [threads EXCEPT ![t].pc = rw]
    /\ UNCHANGED <<notifications, poisoned, added, lock, committed>>
    /\ UNCHANGED svars

\* self.inner.write().expect(..): blocks while a guard is alive; on a
\* poisoned lock the guard comes inside an Err, expect panics and drops it.
\* (add is called at most MaxLen times.)
LockWrite(t) ==
    /\ threads[t].pc = "write"
    /\ write_available(lock)
    /\ IF poisoned
       THEN threads' = [threads EXCEPT ![t] = Idle] /\ UNCHANGED lock
       ELSE /\ \E m \in WriteMethods :
                   /\ m = "add" => Len(notifications) < MaxLen
                   /\ threads' = [threads EXCEPT ![t].pc = "body", ![t].method = m]
            /\ lock' = [lock EXCEPT !.writer = t]
    /\ UNCHANGED <<notifications, poisoned, added, committed>>
    /\ UNCHANGED svars

\* self.inner.read().expect(..)
LockRead(t) ==
    /\ threads[t].pc = "read"
    /\ read_available(lock)
    /\ IF poisoned
       THEN threads' = [threads EXCEPT ![t] = Idle] /\ UNCHANGED lock
       ELSE /\ \E m \in ReadMethods :
                   threads' = [threads EXCEPT ![t].pc = "body", ![t].method = m]
            /\ lock' = [lock EXCEPT !.readers = @ \cup {t}]
    /\ UNCHANGED <<notifications, poisoned, added, committed>>
    /\ UNCHANGED svars

Lock(t) == LockWrite(t) \/ LockRead(t)

InBody(t, m) == threads[t].pc = "body" /\ threads[t].method = m

\* The body of a method that is done in one step and leaves `ns`.
Finish(t, ns, b, c) ==
    /\ notifications' = ns
    /\ threads' = [threads EXCEPT ![t].pc = "unlock", ![t].bool = b, ![t].count = c]
    /\ UNCHANGED <<poisoned, added, lock, committed>>
    /\ UNCHANGED svars

\* A panic in the body: unwinding drops the guard, a write guard dropped
\* while panicking poisons the lock.
Panic(t) ==
    /\ threads' = [threads EXCEPT ![t] = Idle]
    /\ lock' = release(lock, t)
    /\ poisoned' = (poisoned \/ lock.writer = t)
    /\ UNCHANGED <<notifications, added, committed>>
    /\ UNCHANGED svars

AddBody(t) ==
    /\ InBody(t, "add")
    /\ \E is_read \in BOOLEAN :
           Finish(t, push(notifications,
                          [id |-> Len(notifications) + 1, body |-> Len(notifications) + 1,
                           is_read |-> is_read]),
                  FALSE, 0)

GetLastUnreadBody(t) ==
    /\ InBody(t, "get_last_unread")
    /\ IF get_last_unread(notifications).panicked
       THEN Panic(t)
       ELSE Finish(t, notifications, FALSE, 0)

MarkLastAsReadBody(t) ==
    /\ InBody(t, "mark_last_as_read")
    /\ Finish(t, mark_last_as_read(notifications).notifications, FALSE, 0)

\* Lines 162-168: position(), then the wrap (or its panic on the empty
\* vector), or the write of entry `index`.
MarkNextAsUnreadBody(t) ==
    /\ InBody(t, "mark_next_as_unread")
    /\ LET last_unread_index == position(notifications, 1) IN
       IF last_unread_index = 0
       THEN IF Len(notifications) = 0
            THEN Panic(t)
            ELSE Finish(t, [notifications EXCEPT ![Len(notifications)].is_read = FALSE],
                        TRUE, 0)
       ELSE /\ notifications' = [notifications EXCEPT ![last_unread_index].is_read = TRUE]
            /\ threads' = [threads EXCEPT ![t].pc = "step", ![t].index = last_unread_index]
            /\ UNCHANGED <<poisoned, added, lock, committed>>
            /\ UNCHANGED svars

\* Lines 169-175: the write of entry `index - 1`, or the return of false.
MarkNextAsUnreadStep(t) ==
    /\ threads[t].pc = "step"
    /\ threads[t].method = "mark_next_as_unread"
    /\ LET index == threads[t].index IN
       IF index > 1
       THEN Finish(t, [notifications EXCEPT ![index - 1].is_read = FALSE], TRUE, 0)
       ELSE Finish(t, notifications, FALSE, 0)

MarkAsReadBody(t) ==
    /\ InBody(t, "mark_as_read")
    /\ \E id \in Ids : Finish(t, mark_as_read(notifications, id).notifications, FALSE, 0)

\* iter_mut().for_each(|v| v.is_read = true): one entry per step; `index`
\* counts the entries visited.
MarkAllAsReadBody(t) ==
    /\ InBody(t, "mark_all_as_read")
    /\ IF threads[t].index < Len(notifications)
       THEN /\ notifications' = [notifications EXCEPT ![threads[t].index + 1].is_read = TRUE]
            /\ threads' = [threads EXCEPT ![t].index = @ + 1]
            /\ UNCHANGED <<poisoned, added, lock, committed>>
            /\ UNCHANGED svars
       ELSE Finish(t, notifications, FALSE, 0)

GetUnreadCountBody(t) ==
    /\ InBody(t, "get_unread_count")
    /\ Finish(t, notifications, FALSE, get_unread_count(notifications).count)

IsUnreadBody(t) ==
    /\ InBody(t, "is_unread")
    /\ \E id \in Ids : Finish(t, notifications, is_unread(notifications, id).bool, 0)

\* Return: the guard is dropped.
Unlock(t) ==
    /\ threads[t].pc = "unlock"
    /\ threads' = [threads EXCEPT ![t] = Idle]
    /\ lock' = release(lock, t)
    /\ committed' = IF lock.writer = t THEN notifications ELSE committed
    /\ added' = IF threads[t].method = "add" THEN added + 1 ELSE added
    /\ UNCHANGED <<notifications, poisoned>>
    /\ UNCHANGED svars

\* What a thread does once it holds the lock.
Run(t) ==
    \/ AddBody(t)
    \/ GetLastUnreadBody(t)
    \/ MarkLastAsReadBody(t)
    \/ MarkNextAsUnreadBody(t)
    \/ MarkNextAsUnreadStep(t)
    \/ MarkAsReadBody(t)
    \/ MarkAllAsReadBody(t)
    \/ GetUnreadCountBody(t)
    \/ IsUnreadBody(t)
    \/ Unlock(t)

NextThreads ==
    \/ \E t \in Threads, rw \in {"write", "read"} : Call(t, rw)
    \/ \E t \in Threads : LockWrite(t)
    \/ \E t \in Threads : LockRead(t)
    \/ \E t \in Threads : AddBody(t)
    \/ \E t \in Threads : GetLastUnreadBody(t)
    \/ \E t \in Threads : MarkLastAsReadBody(t)
    \/ \E t \in Threads : MarkNextAsUnreadBody(t)
    \/ \E t \in Threads : MarkNextAsUnreadStep(t)
    \/ \E t \in Threads : MarkAsReadBody(t)
    \/ \E t \in Threads : MarkAllAsReadBody(t)
    \/ \E t \in Threads : GetUnreadCountBody(t)
    \/ \E t \in Threads : IsUnreadBody(t)
    \/ \E t \in Threads : Unlock(t)

SpecThreads == Init /\ [][NextThreads]_vars

\* A fair scheduler: a thread that holds the lock keeps running, and a thread
\* that can take the lock again and again does take it.  A thread is free
\* never to call a method again.
SpecThreadsFair ==
    /\ Init
    /\ [][NextThreads]_vars
    /\ \A t \in Threads :
           /\ WF_vars(Run(t))
           /\ SF_vars(Lock(t))

\* ------------------------------------------------ vocabulary of the claims
\* The last call was `name`, made on a Manager whose lock was not poisoned.
Called(name) == call.name = name /\ ~call.was_poisoned

UnreadSet(ns) == {k \in 1..Len(ns) : ~ns[k].is_read}

\* Lowest and highest position of an unread entry (of a vector that has one).
Lowest(ns) == CHOOSE k \in UnreadSet(ns) : \A j \in UnreadSet(ns) : k <= j
Highest(ns) == CHOOSE k \in UnreadSet(ns) : \A j \in UnreadSet(ns) : j <= k

\* Same length, same entries in the same order, is_read flags aside.
SameEntries(a, b) ==
    /\ Len(a) = Len(b)
    /\ \A k \in 1..Len(a) : a[k].id = b[k].id /\ a[k].body = b[k].body

\* No entry of ns carries the id.
Absent(ns, id) == \A k \in 1..Len(ns) : ns[k].id # id

C3_WrapAround ==
    (Called("mark_next_as_unread") /\ Len(call.pre) >= 1 /\ AllRead(call.pre)) =>
        /\ call.outcome = "ok"
        /\ call.bool = TRUE
        /\ SameEntries(call.pre, notifications)
        /\ UnreadSet(notifications) = {Len(call.pre)}

C3_Witness ==
    /\ Called("mark_next_as_unread")
    /\ Len(call.pre) = 3 /\ AllRead(call.pre)
    /\ UnreadSet(notifications) = {3}

\* ---------------------------------------------------------------------- C4
\* C4: whenever a completed mark_next_as_unread call leaves at least one
\* entry unread, it returned true.
C4_TrueIfUnreadRemains ==
    (Called("mark_next_as_unread") /\ call.outcome = "ok" /\ SomeUnread(notifications)) =>
        call.bool = TRUE

\* ---------------------------------------------------------------------- C5
\* C5: with at least one unread entry, get_last_unread returns a copy of the
\* unread entry of highest index and leaves the vector as it was.
C5_GetLastUnread ==
    (Called("get_last_unread") /\ SomeUnread(call.pre)) =>
        /\ call.outcome = "ok"
        /\ call.notif = call.pre[Highest(call.pre)]
        /\ notifications = call.pre

\* The highest unread entry is neither the last entry nor the lowest unread one.
C5_Witness ==
    /\ Called("get_last_unread")
    /\ Len(call.pre) = 3
    /\ UnreadSet(call.pre) = {1, 2}
    /\ call.notif = call.pre[2]

\* ---------------------------------------------------------------------- C6
\* C6: with at least one unread entry, mark_last_as_read sets the unread
\* entry of highest index read and changes nothing else: the unread count
\* drops by one, and when an unread entry is left a get_last_unread that
\* follows returns the unread entry of next-highest index.  On ids 1, 2, 3,
\* all unread: get_last_unread is id 3 before, id 2 after, and the count is 2.
C6_MarkLastAsRead ==
    (Called("mark_last_as_read") /\ SomeUnread(call.pre)) =>
        LET h == Highest(call.pre)
            rest == UnreadSet(call.pre) \ {h}
        IN
        /\ call.outcome = "ok"
        /\ SameEntries(call.pre, notifications)
        /\ UnreadSet(notifications) = rest
        /\ get_unread_count(notifications).count = get_unread_count(call.pre).count - 1
        /\ rest # {} =>
               LET h2 == CHOOSE k \in rest : \A j \in rest : j <= k IN
               /\ ~get_last_unread(notifications).panicked
               /\ get_last_unread(notifications).notif = call.pre[h2]
        /\ (Len(call.pre) = 3 /\ AllUnread(call.pre)
              /\ \A k \in 1..3 : call.pre[k].id = k) =>
               /\ get_last_unread(call.pre).notif.id = 3
               /\ get_last_unread(notifications).notif.id = 2
               /\ get_unread_count(notifications).count = 2

C6_Witness ==
    /\ Called("mark_last_as_read")
    /\ Len(call.pre) = 3 /\ AllUnread(call.pre)
    /\ \A k \in 1..3 : call.pre[k].id = k
    /\ UnreadSet(notifications) = {1, 2}

\* ---------------------------------------------------------------------- C7
\* C7 as stated: mark_last_as_read with no unread entry (the empty vector
\* included) and mark_as_read of an id no entry carries complete without
\* failure and leave the vector unchanged.
C7_SilentNoOps_AsStated ==
    (\/ call.name = "mark_last_as_read" /\ ~SomeUnread(call.pre)
     \/ call.name = "mark_as_read" /\ Absent(call.pre, call.id)) =>
        /\ call.outcome = "ok"
        /\ notifications = call.pre

\* C7 amended: both calls leave the vector unchanged, and they complete
\* without failure unless the lock was poisoned beforehand (by
\* mark_next_as_unread panicking on the empty vector), in which case they
\* panic; a second mark_last_as_read right after one made with exactly one
\* unread entry changes nothing.
C7_SilentNoOps ==
    /\ (\/ call.name = "mark_last_as_read" /\ ~SomeUnread(call.pre)
        \/ call.name = "mark_as_read" /\ Absent(call.pre, call.id)) =>
           /\ notifications = call.pre
           /\ (call.outcome = "ok") <=> ~call.was_poisoned
           /\ call.was_poisoned => Len(call.pre) = 0
    /\ (Called("mark_last_as_read") /\ Cardinality(UnreadSet(call.pre)) = 1) =>
           /\ call.outcome = "ok"
           /\ ~mark_last_as_read(notifications).panicked
           /\ mark_last_as_read(notifications).notifications = notifications

\* The second of two mark_last_as_read calls in a row: nothing is unread.
C7_Witness ==
    /\ Called("mark_last_as_read")
    /\ Len(call.pre) = 3 /\ AllRead(call.pre)
    /\ call.outcome = "ok"
    /\ notifications = call.pre

\* ---------------------------------------------------------------------- C8
\* C8: mark_as_read(id) sets read the first entry whose id is the argument
\* and no other: every other entry, a later one with the same id included,
\* keeps its flag.
C8_MarkAsReadFirstMatch ==
    (Called("mark_as_read") /\ ~Absent(call.pre, call.id)) =>
        LET matches == {k \in 1..Len(call.pre) : call.pre[k].id = call.id}
            first == CHOOSE k \in matches : \A j \in matches : k <= j
        IN
        /\ call.outcome = "ok"
        /\ SameEntries(call.pre, notifications)
        /\ notifications[first].is_read
        /\ \A k \in 1..Len(call.pre) :
               k # first => notifications[k].is_read = call.pre[k].is_read

\* Two entries carry the id, both unread before; the later one stays unread.
C8_Witness ==
    /\ Called("mark_as_read")
    /\ \E j, k \in 1..Len(call.pre) :
           /\ j < k
           /\ call.pre[j].id = call.id /\ call.pre[k].id = call.id
           /\ ~call.pre[j].is_read /\ ~call.pre[k].is_read
           /\ notifications[j].is_read /\ ~notifications[k].is_read

\* ---------------------------------------------------------------------- C9
\* C9: right after mark_all_as_read completes every entry is read:
\* get_unread_count is 0, is_unread(id) is false for every id stored, and the
\* length and the order of the vector are unchanged.
C9_MarkAllAsRead ==
    (Called("mark_all_as_read") /\ call.outcome = "ok") =>
        /\ \A k \in 1..Len(notifications) : notifications[k].is_read
        /\ get_unread_count(notifications).count = 0
        /\ \A k \in 1..Len(notifications) :
               is_unread(notifications, notifications[k].id).bool = FALSE
        /\ SameEntries(call.pre, notifications)

C9_Witness ==
    /\ Called("mark_all_as_read")
    /\ Len(call.pre) = 3
    /\ UnreadSet(call.pre) = {1, 3}
    /\ AllRead(notifications)

\* --------------------------------------------------------------------- C10
\* C10 as stated: as long as no mark_* method was called, get_unread_count
\* equals the number of add calls made, whatever notifications were passed.
C10_UnreadCountIsAdded_AsStated ==
    ~marked =>
        /\ get_unread_count(notifications).count = added
        /\ Called("get_unread_count") => call.count = added

\* C10 amended: as long as no mark_* method was called, get_unread_count
\* equals the number of add calls whose notification was passed with
\* is_read = false (all k of them when none is passed already read).
C10_UnreadCountIsAdded ==
    ~marked =>
        /\ get_unread_count(notifications).count = addedUnread
        /\ Called("get_unread_count") => call.outcome = "ok" /\ call.count = addedUnread
        /\ added = Len(notifications)
        /\ addedUnread <= added

C10_Witness ==
    /\ ~marked
    /\ Called("get_unread_count")
    /\ added = 3
    /\ addedUnread = 2
    /\ call.count = 2

\* --------------------------------------------------------------------- C11
\* C11: an is_unread(id) call that returns yields true exactly when an entry
\* with the id exists and the first such entry is unread; it yields false
\* when no entry carries the id (the empty vector included) and when the
\* first match is read, even if a later entry with the id is unread.  The
\* call returns whenever the lock is not poisoned, and changes nothing.
C11_IsUnread ==
    /\ Called("is_unread") => call.outcome = "ok"
    /\ (call.name = "is_unread" /\ call.outcome = "ok") =>
           LET matches == {k \in 1..Len(call.pre) : call.pre[k].id = call.id} IN
           /\ notifications = call.pre
           /\ matches = {} => call.bool = FALSE
           /\ matches # {} =>
                  LET first == CHOOSE k \in matches : \A j \in matches : k <= j IN
                  call.bool = ~call.pre[first].is_read

\* The first entry with the id is read, a later one is unread: false.
C11_Witness ==
    /\ Called("is_unread")
    /\ call.bool = FALSE
    /\ \E j, k \in 1..Len(call.pre) :
           /\ j < k
           /\ call.pre[j].id = call.id /\ call.pre[k].id = call.id
           /\ \A i \in 1..(j - 1) : call.pre[i].id # call.id
           /\ call.pre[j].is_read /\ ~call.pre[k].is_read

\* --------------------------------------------------------------------- C12
\* C12: the vector never shrinks and is never reordered: every call leaves
\* each entry at its index with its id and payload, only add changes the
\* length, and a completed add extends the vector by exactly the passed
\* notification, at the end, leaving the flags of the others alone.  (The
\* k-th notification added carries payload k, so it stays at position k.)
C12_AppendOnly ==
    /\ Len(notifications) >= Len(call.pre)
    /\ \A k \in 1..Len(call.pre) :
           /\ notifications[k].id = call.pre[k].id
           /\ notifications[k].body = call.pre[k].body
    /\ \A k \in 1..Len(notifications) : notifications[k].body = k
    /\ Len(notifications) # Len(call.pre) =>
           call.name = "add" /\ Len(notifications) = Len(call.pre) + 1
    /\ (call.name = "add" /\ call.outcome = "ok") =>
           /\ Len(notifications) = Len(call.pre) + 1
           /\ SubSeq(notifications, 1, Len(call.pre)) = call.pre
           /\ notifications[Len(notifications)].id = call.id
           /\ notifications[Len(notifications)].body = added

C12_Witness ==
    /\ Called("add")
    /\ Len(call.pre) = 2 /\ Len(notifications) = 3
    /\ SomeUnread(call.pre)
    /\ notifications[3].id = call.pre[1].id

\* --------------------------------------------------------------------- C15
\* C15: get_last_unread with no unread entry (empty vector or all read) and
\* mark_next_as_unread on the empty vector panic instead of returning a
\* value, and the vector after the failed call is the vector before it.
C15_OutOfRangeIsFatal ==
    /\ (Called("get_last_unread") /\ ~SomeUnread(call.pre)) =>
           /\ call.outcome = "panic"
           /\ call.notif = NoNotification
           /\ notifications = call.pre
    /\ (Called("mark_next_as_unread") /\ Len(call.pre) = 0) =>
           /\ call.outcome = "panic"
           /\ notifications = call.pre

C15_Witness ==
    /\ Called("get_last_unread")
    /\ Len(call.pre) = 3 /\ AllRead(call.pre)
    /\ call.outcome = "panic"
    /\ notifications = call.pre

\* --------------------------------------------------------------------- C16
\* C16: mark_next_as_unread on the empty vector panics under the write lock
\* and poisons it; from a poisoned Manager every call of every method fails,
\* changes nothing, and leaves the Manager poisoned.
C16_PoisoningIsPermanent ==
    /\ []((Called("mark_next_as_unread") /\ Len(call.pre) = 0) =>
              (poisoned /\ call.outcome = "panic"))
    /\ [][poisoned =>
              /\ poisoned'
              /\ call'.name \in Methods
              /\ call'.outcome = "panic"
              /\ notifications' = notifications]_vars

C16_Witness ==
    /\ poisoned
    /\ call.was_poisoned
    /\ call.name = "get_unread_count"
    /\ call.outcome = "panic"

\* --------------------------------------------------------------------- C18
\* C18: mark_next_as_unread leaves the unread count unchanged when the lowest
\* unread index is > 0, lowers it by one when that index is 0, and raises it
\* from 0 to 1 when it wraps; so with at most one entry unread before a
\* mark_next_as_unread, mark_last_as_read, mark_as_read or mark_all_as_read
\* call, at most one entry is unread after it.
C18_SingleCursor ==
    LET before == Cardinality(UnreadSet(call.pre))
        after == Cardinality(UnreadSet(notifications))
    IN
    /\ (Called("mark_next_as_unread") /\ call.outcome = "ok") =>
           /\ (before > 0 /\ Lowest(call.pre) > 1) => after = before
           /\ (before > 0 /\ Lowest(call.pre) = 1) => after = before - 1
           /\ before = 0 => after = 1
    /\ (IsMark(call.name) /\ before <= 1) => after <= 1

C18_Witness ==
    /\ Called("mark_next_as_unread")
    /\ Len(call.pre) = 3
    /\ UnreadSet(call.pre) = {3}
    /\ UnreadSet(notifications) = {2}

\* --------------------------------------------------------------------- C19
\* C19: from N >= 1 entries, all read, with nothing interleaved, the k-th
\* mark_next_as_unread call (1 <= k <= N) returns true and leaves exactly
\* entry N - k unread; call N + 1 returns false and leaves every entry read
\* again, so true was returned N times and the states repeat with period
\* N + 1.  (Entry N - k of the code is position N - k + 1 here.)
C19_FullCursorCycle ==
    cycle.active =>
        LET N == Len(notifications)
            k == cycle.calls
        IN
        /\ N >= 1
        /\ k \in 0..(N + 1)
        /\ k = 0 => AllRead(notifications)
        /\ k \in 1..N =>
               /\ Called("mark_next_as_unread")
               /\ call.bool = TRUE
               /\ cycle.trues = k
               /\ UnreadSet(notifications) = {N - k + 1}
        /\ k = N + 1 =>
               /\ Called("mark_next_as_unread")
               /\ call.bool = FALSE
               /\ cycle.trues = N
               /\ AllRead(notifications)
        /\ k >= 1 => SameEntries(call.pre, notifications)

C19_Witness ==
    /\ cycle.active
    /\ Len(notifications) = 3
    /\ cycle.calls = 4
    /\ cycle.trues = 3
    /\ AllRead(notifications)

\* --------------------------------------------------------------------- C20
\* C20 as stated: after a get_last_unread that failed for want of an unread
\* entry, a call of add, of any mark_* method, of get_unread_count or of
\* is_unread succeeds.
C20_FailedReadHarmless_AsStated ==
    (call.after_failed_read /\ call.name \in Methods \ {"get_last_unread"}) =>
        call.outcome = "ok"

\* C20 amended: a get_last_unread that failed for want of an unread entry
\* leaves the vector unchanged and the lock unpoisoned; the call after it
\* never fails on a poisoned lock and behaves as before: add appends,
\* mark_last_as_read, mark_as_read and mark_all_as_read succeed and find
\* nothing to change, get_unread_count returns 0, is_unread returns false,
\* mark_next_as_unread wraps to the last entry of a non-empty vector and
\* still panics on the empty one, its own out-of-range failure.
C20_FailedReadHarmless ==
    /\ FailedRead => ~poisoned /\ notifications = call.pre /\ ~SomeUnread(call.pre)
    /\ call.after_failed_read =>
           /\ ~call.was_poisoned
           /\ ~SomeUnread(call.pre)
           /\ call.outcome = "panic" =>
                  \/ call.name = "get_last_unread"
                  \/ call.name = "mark_next_as_unread" /\ Len(call.pre) = 0
           /\ call.name = "add" =>
                  call.outcome = "ok" /\ Len(notifications) = Len(call.pre) + 1
           /\ call.name \in {"mark_last_as_read", "mark_as_read", "mark_all_as_read"} =>
                  call.outcome = "ok" /\ notifications = call.pre
           /\ call.name = "get_unread_count" =>
                  call.outcome = "ok" /\ call.count = 0
           /\ call.name = "is_unread" =>
                  call.outcome = "ok" /\ call.bool = FALSE
           /\ (call.name = "mark_next_as_unread" /\ Len(call.pre) >= 1) =>
                  /\ call.outcome = "ok"
                  /\ call.bool = TRUE
                  /\ UnreadSet(notifications) = {Len(call.pre)}

C20_Witness ==
    /\ call.after_failed_read
    /\ call.name = "add"
    /\ call.outcome = "ok"
    /\ Len(call.pre) = 2
    /\ Len(notifications) = 3

\* --------------------------------------------------------------------- C13
\* C13: with threads calling add, mark_all_as_read and the other methods in
\* any interleaving on clones of one Manager, no get_unread_count call ever
\* returns more than the number of add calls that have returned, and
\* whenever no write guard is alive the number of unread entries is at most
\* that number.
C13_CountWithinAdded ==
    /\ \A t \in Threads :
           (threads[t].pc = "unlock" /\ threads[t].method = "get_unread_count") =>
               threads[t].count <= added
    /\ lock.writer = 0 =>
           /\ get_unread_count(notifications).count <= added
           /\ Len(notifications) = added

\* One thread returns from get_unread_count with the full count while
\* another is blocked in a mutating method.
C13_Witness ==
    \E t, u \in Threads :
        /\ threads[t].pc = "unlock"
        /\ threads[t].method = "get_unread_count"
        /\ threads[t].count = 2
        /\ added = 2
        /\ threads[u].pc = "write"

\* --------------------------------------------------------------------- C14
\* C14: a thread in the body of a mutating method holds the lock for
\* writing, alone; a thread in the body of a read-only method holds it for
\* reading, and then no writer holds it.  No reader sees a partly applied
\* mutation: while a read guard is alive the vector is as the last write
\* guard left it, and get_unread_count returns the count of that vector.
\* A mark_next_as_unread that has set entry i read and not yet entry i - 1
\* unread, or a mark_all_as_read that has visited only some entries, runs
\* with no read guard alive; when either is done the vector is what the
\* whole method makes of the vector it found.
C14_LockDiscipline ==
    /\ lock.writer # 0 => lock.readers = {}
    /\ \A t \in Threads :
           threads[t].pc \in {"body", "step", "unlock"} =>
               /\ threads[t].method \in WriteMethods => lock.writer = t
               /\ threads[t].method \in ReadMethods =>
                      /\ t \in lock.readers
                      /\ notifications = committed
    /\ \A t \in Threads :
           (lock.writer = t \/ t \in lock.readers) =>
               threads[t].pc \in {"body", "step", "unlock"}
    /\ \A t \in Threads :
           (threads[t].pc = "unlock" /\ threads[t].method = "get_unread_count") =>
               threads[t].count = Cardinality(UnreadSet(committed))
    /\ \A t \in Threads :
           (threads[t].pc = "step" /\ threads[t].method = "mark_next_as_unread") =>
               /\ lock.readers = {}
               /\ \A u \in Threads \ {t} : threads[u].pc \in {"idle", "write", "read"}
    /\ \A t \in Threads :
           (threads[t].pc = "body" /\ threads[t].method = "mark_all_as_read"
              /\ threads[t].index > 0) =>
               /\ lock.readers = {}
               /\ \A u \in Threads \ {t} : threads[u].pc \in {"idle", "write", "read"}
    /\ \A t \in Threads :
           (threads[t].pc = "unlock" /\ threads[t].method = "mark_next_as_unread") =>
               /\ notifications = mark_next_as_unread(committed).notifications
               /\ threads[t].bool = mark_next_as_unread(committed).bool
    /\ \A t \in Threads :
           (threads[t].pc = "unlock" /\ threads[t].method = "mark_all_as_read") =>
               notifications = mark_all_as_read(committed).notifications

\* mark_next_as_unread has set entry 1 read and not yet entry 0 unread while
\* another thread waits in get_unread_count.
C14_Witness ==
    \E t, u \in Threads :
        /\ threads[t].pc = "step"
        /\ threads[t].method = "mark_next_as_unread"
        /\ threads[t].index = 2
        /\ notifications # committed
        /\ threads[u].pc = "read"

\* --------------------------------------------------------------------- C17
\* A thread that waits for the lock and cannot take it waits for a thread
\* that is inside a method with its guard alive.
WaitsOnlyForHolder ==
    \A t \in Threads :
        threads[t].pc \in {"write", "read"} =>
            \/ threads[t].pc = "write" /\ write_available(lock)
            \/ threads[t].pc = "read" /\ read_available(lock)
            \/ \E u \in Threads \ {t} :
                   /\ threads[u].pc \in {"body", "step", "unlock"}
                   /\ lock.writer = u \/ u \in lock.readers

\* C17 as stated: under a fair scheduler every method call a thread has
\* started comes to its end, by return or by panic, and a thread waits for
\* the lock only while another call is in flight.
C17_NoIndefiniteBlocking_AsStated ==
    /\ []WaitsOnlyForHolder
    /\ \A t \in Threads : (threads[t].pc # "idle") ~> (threads[t].pc = "idle")

\* Steps thread t has left in the call it is in once it holds the lock.
Remaining(t) ==
    LET th == threads[t] IN
    IF th.pc = "unlock" THEN 1
    ELSE IF th.pc = "step" THEN 2
    ELSE IF th.pc = "body"
         THEN IF th.method = "mark_all_as_read" THEN Len(notifications) - th.index + 2
              ELSE IF th.method = "mark_next_as_unread" THEN 3
              ELSE 2
    ELSE 0

\* C17 amended: a thread waits for the lock only while another call is in
\* flight with its guard alive, and a call that has taken the lock is never
\* blocked and is closer to its end (return or panic, the guard dropped)
\* with every step, so under a fair scheduler it ends and no thread waits for
\* a lock nobody will release.  (A waiting call is not promised the lock:
\* std leaves the order open, and a writer waits for ever while two readers
\* keep overlapping.)
C17_NoIndefiniteBlocking ==
    /\ [](/\ WaitsOnlyForHolder
          /\ \A t \in Threads :
                 threads[t].pc \in {"body", "step", "unlock"} => ENABLED Run(t))
    /\ [][\A t \in Threads :
              Run(t) =>
                  /\ Remaining(t)' < Remaining(t)
                  /\ Remaining(t)' = 0 =>
                         /\ threads'[t].pc = "idle"
                         /\ lock'.writer # t
                         /\ t \notin lock'.readers]_vars

\* A writer waits for the lock while two other threads hold it for reading.
C17_Witness ==
    \E t, u, v \in Threads :
        /\ u # v
        /\ threads[t].pc = "write"
        /\ {u, v} \subseteq lock.readers
        /\ threads[u].pc = "body"
        /\ threads[v].pc = "unlock"

====
